---- MODULE Spec2Model ----
(***************************************************************************)
(* Poseidon permutation (src/src/permutation.rs) and the generic sponge    *)
(* construction (src/src/sponge.rs) of poseidonito.                        *)
(*                                                                         *)
(* Arrays are functions over 0..n-1, as in the source.  Field elements are *)
(* the integers modulo FieldOrder.  A call of perm is computed as the code *)
(* computes it, step by step, and leaves a trace of the steps it took.     *)
(***************************************************************************)
EXTENDS Integers, Sequences, FiniteSets

VARIABLES cfg, status, state, output, hist, hashes, hash_steps

vars == <<cfg, status, state, output, hist, hashes, hash_steps>>

(***************************************************************************)
(* Bounds of the model.                                                    *)
(***************************************************************************)
FieldOrder == 7
MaxN == 4
MaxVal == 2
MaxOps == 2
MaxLen == 2
MaxRounds == 2

(***************************************************************************)
(* Field arithmetic (ark_ff::Field), modulo FieldOrder.                    *)
(***************************************************************************)
F(x) == x % FieldOrder

FAdd(a, b) == (a + b) % FieldOrder

FMul(a, b) == (a * b) % FieldOrder

RECURSIVE pow(_, _)
pow(x, e) == IF e = 0 THEN F(1) ELSE FMul(x, pow(x, e - 1))

EmptyArr == [i \in {} |-> 0]

Arr(s) == [i \in 0..(Len(s) - 1) |-> F(s[i + 1])]

Size(a) == Cardinality(DOMAIN a)

Prefix(a, n) == [i \in 0..(n - 1) |-> a[i]]

\* Sequencing of two statements: x is computed, once, and K continues with
\* its value.
Then(x, K(_)) == CHOOSE r \in {K(v) : v \in {x}} : TRUE

(***************************************************************************)
(* Implementations of the trait PoseidonConfig<F, T>.                      *)
(***************************************************************************)
IDENTITY_MATRIX ==
    [i \in 0..2 |-> [j \in 0..2 |-> IF i = j THEN F(1) ELSE F(0)]]

ZEROES == [k \in 0..(3 * (2 + 3) - 1) |-> F(0)]

ROUND_CONSTANTS ==
    Arr(<<1, 10, 100, 2, 20, 200, 3, 30, 300, 4, 40, 400, 5, 50, 500>>)

MDS_MATRIX == [i \in 0..2 |-> Arr(<<<<0, 1, 0>>, <<0, 0, 1>>, <<2, 0, 0>>>>[i + 1])]

IdentityConfig ==
    [name |-> "IdentityConfig", T |-> 3, R_F |-> 2, R_P |-> 3,
     mds_matrix |-> IDENTITY_MATRIX, round_constants |-> ZEROES, sbox |-> "id"]

SboxConfig ==
    [name |-> "SboxConfig", T |-> 3, R_F |-> 2, R_P |-> 3,
     mds_matrix |-> IDENTITY_MATRIX, round_constants |-> ZEROES, sbox |-> "pow5"]

RoundConstantConfig ==
    [name |-> "RoundConstantConfig", T |-> 3, R_F |-> 2, R_P |-> 3,
     mds_matrix |-> IDENTITY_MATRIX, round_constants |-> ROUND_CONSTANTS, sbox |-> "id"]

MatrixConfig ==
    [name |-> "MatrixConfig", T |-> 3, R_F |-> 2, R_P |-> 3,
     mds_matrix |-> MDS_MATRIX, round_constants |-> ZEROES, sbox |-> "id"]

\* A configuration with every ingredient non-trivial at once, as the shipped
\* ConfigX5_254_3 has (x^5 S-box, dense matrix, non-zero constants).
DenseConfig ==
    [name |-> "DenseConfig", T |-> 3, R_F |-> 2, R_P |-> 3,
     mds_matrix |-> [i \in 0..2 |-> [j \in 0..2 |-> F(1 + i + 2 * j + i * j)]],
     round_constants |-> ROUND_CONSTANTS, sbox |-> "pow5"]

\* An implementation whose R_F is odd: the trait does not forbid it.
OddConfig ==
    [name |-> "OddConfig", T |-> 3, R_F |-> 3, R_P |-> 1,
     mds_matrix |-> MDS_MATRIX, round_constants |-> ROUND_CONSTANTS, sbox |-> "pow5"]

\* Implementations whose round_constants() slice is shorter than T*(R_F+R_P):
\* the trait does not forbid that either.
ShortLens == {0, 4, 14}

Truncated(c, L) ==
    [c EXCEPT !.name = "Short", !.round_constants = Prefix(c.round_constants, L)]

Configs ==
    {IdentityConfig, SboxConfig, RoundConstantConfig, MatrixConfig, DenseConfig, OddConfig}
    \cup {Truncated(c, L) : c \in {RoundConstantConfig, DenseConfig}, L \in ShortLens}

\* The shipped configuration (configurations/config_x5_254_3/mod.rs).  The
\* matrix entries are abbreviated to the leading byte of their hex strings.
X5_254_3_MDS ==
    [i \in 0..2 |-> Arr(<<<<16, 22, 43>>, <<41, 46, 16>>, <<20, 23, 25>>>>[i + 1])]

\* parse_constants(include_str!("constants.txt")): one element per line of the
\* file, T * (R_F + R_P) = 195 of them.
X5_254_3_CONSTANTS == [k \in 0..(195 - 1) |-> F(k + 1)]

\* Faulty variant: one partial round more than the constants are made for.
ConfigX5_254_3_ExtraRound ==
    [name |-> "ConfigX5_254_3", T |-> 3, R_F |-> 8, R_P |-> 58,
     mds_matrix |-> X5_254_3_MDS, round_constants |-> X5_254_3_CONSTANTS, sbox |-> "pow5"]

ConfigX5_254_3 ==
    [name |-> "ConfigX5_254_3", T |-> 3, R_F |-> 8, R_P |-> 57,
     mds_matrix |-> X5_254_3_MDS, round_constants |-> X5_254_3_CONSTANTS, sbox |-> "pow5"]

\* IdentityConfig with other round counts.
IdentityRounds(rf, rp) ==
    [name |-> "IdentityRounds", T |-> 3, R_F |-> rf, R_P |-> rp,
     mds_matrix |-> IDENTITY_MATRIX,
     round_constants |-> [k \in 0..(3 * (rf + rp) - 1) |-> F(0)], sbox |-> "id"]

NoConfig ==
    [name |-> "none", T |-> 0, R_F |-> 0, R_P |-> 0,
     mds_matrix |-> EmptyArr, round_constants |-> EmptyArr, sbox |-> "id"]

RoundsNeeded(c) == c.T * (c.R_F + c.R_P)

(***************************************************************************)
(* permutation.rs                                                          *)
(***************************************************************************)
sbox(c, x) == IF c.sbox = "pow5" THEN pow(x, 5) ELSE x

RECURSIVE RowAcc(_, _, _, _, _)
RowAcc(matrix, vector, i, j, acc) ==
    IF j >= Size(vector) THEN acc
    ELSE RowAcc(matrix, vector, i, j + 1, FAdd(acc, FMul(matrix[i][j], vector[j])))

\* Faulty variant: the product is written into the vector it is read from.
RECURSIVE MulInPlace(_, _, _)
MulInPlace(matrix, vector, i) ==
    IF i >= Size(vector) THEN vector
    ELSE MulInPlace(matrix, [vector EXCEPT ![i] = RowAcc(matrix, vector, i, 0, F(0))], i + 1)

matrix_vector_mul_in_place(matrix, vector) == MulInPlace(matrix, vector, 0)

\* Faulty variant: the accumulator of a row starts at one instead of zero.
matrix_vector_mul_from_one(matrix, vector) ==
    [i \in DOMAIN vector |-> RowAcc(matrix, vector, i, 0, F(1))]

matrix_vector_mul(matrix, vector) ==
    [i \in DOMAIN vector |-> RowAcc(matrix, vector, i, 0, F(0))]

\* One event of the trace of a call of perm.
Event(ev, w, lane, idx, pre, post) ==
    [ev |-> ev, round |-> w.round, lane |-> lane, idx |-> idx, pre |-> pre, post |-> post]

\* Faulty variant: the counter is not advanced, so constant 0 is read again.
AddRoundConstantReusing(c, w, i) ==
    IF w.failed THEN w
    ELSE IF w.counter >= Size(c.round_constants)
    THEN [w EXCEPT !.failed = TRUE,
                   !.trace = Append(@, Event("oob", w, i, w.counter, w.words[i], w.words[i]))]
    ELSE LET v == FAdd(w.words[i], c.round_constants[w.counter]) IN
         [w EXCEPT !.words[i] = v,
                   !.trace = Append(@, Event("add", w, i, w.counter, w.words[i], v))]

\* Faulty variant: the index wraps around the end of round_constants.
AddRoundConstantWrapping(c, w, i) ==
    IF w.failed THEN w
    ELSE IF Size(c.round_constants) = 0
    THEN [w EXCEPT !.failed = TRUE,
                   !.trace = Append(@, Event("oob", w, i, w.counter, w.words[i], w.words[i]))]
    ELSE LET idx == w.counter % Size(c.round_constants)
             v == FAdd(w.words[i], c.round_constants[idx])
         IN  [w EXCEPT !.words[i] = v,
                       !.counter = @ + 1,
                       !.trace = Append(@, Event("add", w, i, idx, w.words[i], v))]

\* input_words[i] = input_words[i] + P::round_constants()[round_constants_counter];
\* round_constants_counter += 1;
AddRoundConstant(c, w, i) ==
    IF w.failed THEN w
    ELSE IF w.counter >= Size(c.round_constants)
    THEN [w EXCEPT !.failed = TRUE,
                   !.trace = Append(@, Event("oob", w, i, w.counter, w.words[i], w.words[i]))]
    ELSE LET v == FAdd(w.words[i], c.round_constants[w.counter]) IN
         [w EXCEPT !.words[i] = v,
                   !.counter = @ + 1,
                   !.trace = Append(@, Event("add", w, i, w.counter, w.words[i], v))]

RECURSIVE AddRoundConstants(_, _, _)
AddRoundConstants(c, w, i) ==
    IF i >= c.T THEN w ELSE AddRoundConstants(c, AddRoundConstant(c, w, i), i + 1)

\* input_words[i] = P::sbox(&input_words[i]);
ApplySbox(c, w, i) ==
    IF w.failed THEN w
    ELSE LET v == sbox(c, w.words[i]) IN
         [w EXCEPT !.words[i] = v,
                   !.trace = Append(@, Event("sbox", w, i, -1, w.words[i], v))]

RECURSIVE SboxEveryLane(_, _, _)
SboxEveryLane(c, w, i) ==
    IF i >= c.T THEN w ELSE SboxEveryLane(c, ApplySbox(c, w, i), i + 1)

\* *input_words = matrix_vector_mul(&P::mds_matrix(), &input_words);
MulMatrix(c, w) ==
    IF w.failed THEN w
    ELSE LET v == matrix_vector_mul(c.mds_matrix, w.words) IN
         [w EXCEPT !.words = v,
                   !.round = @ + 1,
                   !.trace = Append(@, Event("mul", w, -1, -1, w.words, v))]

\* Faulty variant: the S-box is applied before the round constants are added.
FullRoundSboxFirst(c, w) == MulMatrix(c, AddRoundConstants(c, SboxEveryLane(c, w, 0), 0))

FullRound(c, w) == MulMatrix(c, SboxEveryLane(c, AddRoundConstants(c, w, 0), 0))

\* Faulty variant: a partial round puts every lane through the S-box.
PartialRoundEveryLane(c, w) == MulMatrix(c, SboxEveryLane(c, AddRoundConstants(c, w, 0), 0))

PartialRound(c, w) == MulMatrix(c, ApplySbox(c, AddRoundConstants(c, w, 0), 0))

\* for _ in 0..n { full round }: n rounds one after the other, computed as
\* the first n / 2 of them followed by the rest.
RECURSIVE FullRounds(_, _, _)
FullRounds(c, w, n) ==
    IF n = 0 \/ w.failed THEN w
    ELSE IF n = 1 THEN FullRound(c, w)
    ELSE Then(FullRounds(c, w, n \div 2), LAMBDA v : FullRounds(c, v, n - n \div 2))

\* for _ in 0..n { partial round }, likewise.
RECURSIVE PartialRounds(_, _, _)
PartialRounds(c, w, n) ==
    IF n = 0 \/ w.failed THEN w
    ELSE IF n = 1 THEN PartialRound(c, w)
    ELSE Then(PartialRounds(c, w, n \div 2), LAMBDA v : PartialRounds(c, v, n - n \div 2))

NoRun == [input |-> EmptyArr, words |-> EmptyArr, counter |-> 0, round |-> 0,
          failed |-> FALSE, trace |-> <<>>]

\* Faulty variant: the counter is kept from call to call instead of being a
\* local that starts at 0, so that a later call starts past the constants
\* the first call has read.
permKeepingCounter(c, input_words) ==
    LET R_f == c.R_F \div 2
        earlier == Len(hist) > 1 \/ Len(hashes) > 0
        w0 == [input |-> input_words, words |-> input_words,
               counter |-> IF earlier THEN RoundsNeeded(c) ELSE 0, round |-> 0,
               failed |-> FALSE, trace |-> <<>>]
        w1 == FullRounds(c, w0, R_f)
        w2 == PartialRounds(c, w1, c.R_P)
    IN  FullRounds(c, w2, R_f)

\* Faulty variant: R_F is not halved, so that each block of full rounds has
\* R_F rounds.
permNotHalving(c, input_words) ==
    LET R_f == c.R_F
        w0 == [input |-> input_words, words |-> input_words, counter |-> 0, round |-> 0,
               failed |-> FALSE, trace |-> <<>>]
        w1 == FullRounds(c, w0, R_f)
        w2 == PartialRounds(c, w1, c.R_P)
    IN  FullRounds(c, w2, R_f)

\* Faulty variant: half of R_F is rounded up.
permRoundingUp(c, input_words) ==
    LET R_f == (c.R_F + 1) \div 2
        w0 == [input |-> input_words, words |-> input_words, counter |-> 0, round |-> 0,
               failed |-> FALSE, trace |-> <<>>]
        w1 == FullRounds(c, w0, R_f)
        w2 == PartialRounds(c, w1, c.R_P)
    IN  FullRounds(c, w2, R_f)

\* Faulty variant: the rounds work on a copy, which is written back to the
\* caller's state only when every round has completed.
permOnCopy(c, input_words) ==
    LET R_f == c.R_F \div 2
        w0 == [input |-> input_words, words |-> input_words, counter |-> 0, round |-> 0,
               failed |-> FALSE, trace |-> <<>>]
        w1 == FullRounds(c, w0, R_f)
        w2 == PartialRounds(c, w1, c.R_P)
        w3 == FullRounds(c, w2, R_f)
    IN  IF w3.failed THEN [w3 EXCEPT !.words = input_words] ELSE w3

perm(c, input_words) ==
    LET R_f == c.R_F \div 2
        w0 == [input |-> input_words, words |-> input_words, counter |-> 0, round |-> 0,
               failed |-> FALSE, trace |-> <<>>]
        w1 == FullRounds(c, w0, R_f)
        w2 == PartialRounds(c, w1, c.R_P)
    IN  FullRounds(c, w2, R_f)

(***************************************************************************)
(* sponge.rs                                                               *)
(***************************************************************************)
\* The generic parameters of Sponge<F, P, RATE, N>.
RATE == cfg.RATE

N == cfg.N

\* The implementations of the trait Permutation<F, N>.
IdentityPermutation(s) == [words |-> s, failed |-> FALSE, run |-> NoRun]

SimplePermutation(s) ==
    [words |-> [i \in DOMAIN s |-> IF i < Size(s) - 1 THEN s[i + 1] ELSE s[0]],
     failed |-> FALSE, run |-> NoRun]

Perm_x5_254_3(s) ==
    LET r == perm(cfg.config, s) IN [words |-> r.words, failed |-> r.failed, run |-> r]

\* P::apply(&mut self.state): m is the sponge while an operation runs on it.
apply(m) ==
    IF m.failed THEN m
    ELSE LET r == CASE cfg.P = "IdentityPermutation" -> IdentityPermutation(m.state)
                    [] cfg.P = "SimplePermutation" -> SimplePermutation(m.state)
                    [] OTHER -> Perm_x5_254_3(m.state)
         IN  [state |-> r.words, failed |-> r.failed, calls |-> m.calls + 1, run |-> r.run]

\* Faulty variant: the assertion is off by one.
RateFitsOffByOne(rate, n) == rate <= n + 1

\* assert!(RATE <= N, ...)
RateFits(rate, n) == rate <= n

\* Faulty variant: the seed is permuted before it becomes the state.
SpongeNewPermuting(start_state) ==
    IF RateFits(RATE, N)
    THEN apply([state |-> start_state, failed |-> FALSE, calls |-> 0, run |-> NoRun])
    ELSE [state |-> EmptyArr, failed |-> TRUE, calls |-> 0, run |-> NoRun]

SpongeNew(start_state) ==
    IF RateFits(RATE, N)
    THEN [state |-> start_state, failed |-> FALSE, calls |-> 0, run |-> NoRun]
    ELSE [state |-> EmptyArr, failed |-> TRUE, calls |-> 0, run |-> NoRun]

\* Faulty variant: the input replaces the rate lanes instead of being added.
AddInputOverwriting(m, input) ==
    [m EXCEPT !.state = [i \in DOMAIN m.state |->
                            IF i < RATE THEN input[i] ELSE m.state[i]]]

\* for i in 0..RATE { self.state[i] += input[i]; }
AddInput(m, input) ==
    [m EXCEPT !.state = [i \in DOMAIN m.state |->
                            IF i < RATE THEN FAdd(m.state[i], input[i]) ELSE m.state[i]]]

\* Faulty variant: the state is permuted before the input is added.
AbsorbPermuteFirst(m, input) == AddInput(apply(m), input)

\* Faulty variant: the input is added and the permutation is left out.
AbsorbWithoutPermute(m, input) == AddInput(m, input)

SpongeAbsorb(m, input) == apply(AddInput(m, input))

\* Faulty variant: the output block is read after the permutation.
SqueezePermuteFirst(m) ==
    LET after == apply(m)
    IN  [m |-> after, output |-> Prefix(after.state, RATE)]

\* Faulty variant: the permutation after the read is left out.
SqueezeWithoutPermute(m) ==
    [m |-> [m EXCEPT !.calls = 0], output |-> Prefix(m.state, RATE)]

\* let output = ...self.state[..RATE]...; P::apply(&mut self.state); output
SpongeSqueeze(m) ==
    LET out == Prefix(m.state, RATE)
        after == apply(m)
    IN  [m |-> after, output |-> out]

(***************************************************************************)
(* The values the callers pass in.                                         *)
(***************************************************************************)
TestVectors ==
    {Arr(<<1, 4>>), Arr(<<1, 10, 100>>), Arr(<<0, 1, 2>>), Arr(<<1, 1, 1>>), Arr(<<2, 3, 4>>)}

\* Initial states: all-zero, [1, 2, 3, ..] and its multiples.
Starts(n) == {[i \in 0..(n - 1) |-> F(a * (i + 1))] : a \in 0..MaxVal}

\* Input blocks: the same family, and the inputs of the tests.
Blocks(n) == Starts(n) \cup {v \in TestVectors : Size(v) = n}

\* Sponge::<Fr, Perm_x5_254_3, 1, 3>, the instantiation inside x5_254_3::hash.
HashInstance == [P |-> "Perm_x5_254_3", RATE |-> 1, N |-> 3, config |-> ConfigX5_254_3]

\* The slices passed to hash: [], [0], [0, 0], .. and [1], [1, 2], [1, 2, 3], ..
HashInputs == {[i \in 0..(n - 1) |-> F(a * (i + 1))] : a \in 0..1, n \in 0..MaxLen}

Instances ==
    {[P |-> p, RATE |-> r, N |-> n, config |-> NoConfig] :
        p \in {"IdentityPermutation", "SimplePermutation"}, r \in 0..(MaxN + 1), n \in 1..MaxN}
    \cup {[P |-> "Perm_x5_254_3", RATE |-> IF full THEN c.T ELSE 1, N |-> c.T, config |-> c] :
        full \in BOOLEAN, c \in Configs}
    \cup {[P |-> "Perm_x5_254_3", RATE |-> 1, N |-> 3, config |-> IdentityRounds(rf, rp)] :
        rf \in 0..MaxRounds, rp \in 0..MaxRounds}
    \cup {HashInstance}

(***************************************************************************)
(* The state machine: one sponge, from before its construction on.         *)
(***************************************************************************)
\* What one operation did: the state before and after it, what it was given
\* and returned, how often it invoked P::apply, and the run of perm inside.
Record(op, input, pre, m, out) ==
    [op |-> op, input |-> input, pre |-> pre, post |-> m.state, out |-> out,
     calls |-> m.calls, failed |-> m.failed, run |-> m.run]

(***************************************************************************)
(* lib.rs                                                                  *)
(***************************************************************************)
\* The sponge between two operations of hash.
Rested(m) == [m EXCEPT !.calls = 0, !.run = NoRun]

\* for i in input { sponge.absorb(&[*i]); }
RECURSIVE AbsorbEach(_, _, _)
AbsorbEach(r, input, i) ==
    IF i >= Size(input) \/ r.m.failed THEN r
    ELSE LET block == [j \in 0..0 |-> input[i]] IN
         Then(SpongeAbsorb(Rested(r.m), block),
              LAMBDA m : AbsorbEach([m |-> m,
                                     steps |-> Append(r.steps,
                                                      Record("absorb", block, r.m.state, m, EmptyArr))],
                                    input, i + 1))

\* sponge.squeeze(), the value of hash; r is the sponge after the loop.
hashSqueeze(r) ==
    IF r.m.failed
    THEN [digest |-> EmptyArr, failed |-> TRUE, steps |-> r.steps]
    ELSE Then(SpongeSqueeze(Rested(r.m)),
              LAMBDA sq :
                  LET out == IF sq.m.failed THEN EmptyArr ELSE sq.output IN
                  [digest |-> out, failed |-> sq.m.failed,
                   steps |-> Append(r.steps, Record("squeeze", EmptyArr, r.m.state, sq.m, out))])

\* let mut sponge = Sponge::<Fr, Perm_x5_254_3, 1, 3>::new([Fr::zero(); 3]);
hashNew ==
    LET zero == [i \in 0..2 |-> F(0)]
        m0 == SpongeNew(zero)
    IN  [m |-> m0, steps |-> <<Record("new", zero, EmptyArr, m0, EmptyArr)>>]

\* Faulty variant: the loop starts at the second element.
hashFromSecond(input) == Then(AbsorbEach(hashNew, input, 1), LAMBDA r : hashSqueeze(r))

\* Faulty variant: a padding element is absorbed before the input.
hashPadded(input) ==
    Then(AbsorbEach(AbsorbEach(hashNew, [j \in 0..0 |-> F(0)], 0), input, 0),
         LAMBDA r : hashSqueeze(r))

x5_254_3_hash(input) == Then(AbsorbEach(hashNew, input, 0), LAMBDA r : hashSqueeze(r))

Idle == [state |-> state, failed |-> FALSE, calls |-> 0, run |-> NoRun]

Init ==
    /\ cfg \in Instances
    /\ status = "none"
    /\ state = EmptyArr
    /\ output = EmptyArr
    /\ hist = <<>>
    /\ hashes = <<>>
    /\ hash_steps = <<>>

\* The caller constructs a sponge itself; under HashInstance the only sponge
\* is the one local to hash (the modules sponge and permutation are private).
new(start_state) ==
    /\ status = "none"
    /\ cfg # HashInstance
    /\ LET m == SpongeNew(start_state) IN
       /\ status' = IF m.failed THEN "panicked" ELSE "ready"
       /\ state' = m.state
       /\ hist' = Append(hist, Record("new", start_state, EmptyArr, m, EmptyArr))
    /\ UNCHANGED <<cfg, output, hashes, hash_steps>>

absorb(input) ==
    /\ status = "ready"
    /\ Len(hist) <= MaxOps
    /\ LET m == SpongeAbsorb(Idle, input) IN
       /\ status' = IF m.failed THEN "panicked" ELSE "ready"
       /\ state' = m.state
       /\ hist' = Append(hist, Record("absorb", input, state, m, EmptyArr))
    /\ UNCHANGED <<cfg, output, hashes, hash_steps>>

squeeze ==
    /\ status = "ready"
    /\ Len(hist) <= MaxOps
    /\ LET r == SpongeSqueeze(Idle) IN
       /\ status' = IF r.m.failed THEN "panicked" ELSE "ready"
       /\ state' = r.m.state
       /\ output' = IF r.m.failed THEN output ELSE r.output
       /\ hist' = Append(hist, Record("squeeze", EmptyArr, state, r.m,
                                      IF r.m.failed THEN EmptyArr ELSE r.output))
    /\ UNCHANGED <<cfg, hashes, hash_steps>>

\* A call of the public function x5_254_3::hash; the sponge is local to it.
hash(input) ==
    /\ cfg = HashInstance
    /\ status = "none"
    /\ Len(hashes) < MaxOps
    /\ LET r == x5_254_3_hash(input) IN
       /\ hashes' = Append(hashes, [input |-> input, digest |-> r.digest, failed |-> r.failed])
       /\ hash_steps' = r.steps
    /\ UNCHANGED <<cfg, status, state, output, hist>>

Next ==
    \/ \E start_state \in Starts(N) : new(start_state)
    \/ \E input \in Blocks(RATE) : absorb(input)
    \/ squeeze
    \/ \E input \in HashInputs : hash(input)

Spec == Init /\ [][Next]_vars

TypeOK ==
    /\ cfg \in Instances
    /\ status \in {"none", "ready", "panicked"}
    /\ \A i \in DOMAIN state : state[i] \in 0..(FieldOrder - 1)
    /\ Len(hist) <= MaxOps + 1

(***************************************************************************)
(* Vocabulary of the properties.                                           *)
(***************************************************************************)
Ops == {k \in 1..Len(hist) : hist[k].op \in {"absorb", "squeeze"}}

\* The effect of exactly one P::apply on a sponge whose state is s.
Permuted(s) == apply([state |-> s, failed |-> FALSE, calls |-> 0, run |-> NoRun])

IsPoseidon == cfg.P = "Perm_x5_254_3"

Needed == cfg.config.T * (cfg.config.R_F + cfg.config.R_P)

Supplied == Size(cfg.config.round_constants)

EvenRF == cfg.config.R_F % 2 = 0

\* The calls of perm made so far: one per absorb or squeeze.
Runs == {k \in Ops : IsPoseidon}

Completed == {k \in Runs : ~hist[k].failed}

IsAdd(e) == e.ev = "add"

IsSbox(e) == e.ev = "sbox"

IsMul(e) == e.ev = "mul"

Adds(k) == SelectSeq(hist[k].run.trace, IsAdd)

Sboxes(k) == SelectSeq(hist[k].run.trace, IsSbox)

Muls(k) == SelectSeq(hist[k].run.trace, IsMul)

Fifth(x) == (x * x * x * x * x) % FieldOrder

RECURSIVE FifthTimes(_, _)
FifthTimes(x, n) == IF n = 0 THEN x ELSE Fifth(FifthTimes(x, n - 1))

(***************************************************************************)
(* C1: Sponge::new fails for every RATE > N, whatever the initial state:   *)
(* it panics and no sponge is produced.                                    *)
(***************************************************************************)
C1_NewRejectsRateAboveN ==
    RATE > N =>
        /\ status \in {"none", "panicked"}
        /\ Len(hist) <= 1
        /\ Len(hist) = 1 =>
              /\ status = "panicked"
              /\ hist[1].op = "new" /\ hist[1].failed
              /\ state = EmptyArr

C1_Witness ==
    /\ RATE > N
    /\ status = "panicked"
    /\ Len(hist) = 1 /\ hist[1].op = "new"
    /\ \E i \in DOMAIN hist[1].input : hist[1].input[i] # 0

(***************************************************************************)
(* C2: for every RATE <= N, RATE = N included, Sponge::new succeeds,       *)
(* invokes the permutation zero times and leaves the state equal to        *)
(* initial_state lane for lane.                                            *)
(***************************************************************************)
C2_NewKeepsInitialState ==
    (RATE <= N /\ Len(hist) >= 1) =>
        /\ hist[1].op = "new"
        /\ ~hist[1].failed
        /\ hist[1].calls = 0
        /\ DOMAIN hist[1].post = 0..(N - 1)
        /\ \A i \in 0..(N - 1) : hist[1].post[i] = hist[1].input[i]
        /\ Len(hist) = 1 => (status = "ready" /\ state = hist[1].input)

C2_Witness ==
    /\ RATE = N
    /\ cfg.P # "IdentityPermutation"
    /\ Len(hist) = 1
    /\ status = "ready"
    /\ \E i, j \in DOMAIN state : state[i] # state[j]

(***************************************************************************)
(* C3: absorb(input) leaves the state P(s'), where s' is the state before  *)
(* with input[i] added into lane i for i < RATE and the lanes RATE..N-1    *)
(* untouched, and P is one application of the permutation to all N lanes.  *)
(***************************************************************************)
C3_Mixed(k) ==
    [i \in 0..(N - 1) |->
        IF i < RATE THEN (hist[k].pre[i] + hist[k].input[i]) % FieldOrder
        ELSE hist[k].pre[i]]

C3_AbsorbAddsThenPermutes ==
    \A k \in Ops : hist[k].op = "absorb" =>
        LET expected == Permuted(C3_Mixed(k)) IN
        /\ hist[k].calls = 1
        /\ hist[k].post = expected.state
        /\ hist[k].failed = expected.failed
        /\ k = Len(hist) => state = hist[k].post
        /\ (/\ N = 4 /\ RATE = 2
            /\ hist[k].pre = Arr(<<0, 0, 0, 0>>) /\ hist[k].input = Arr(<<1, 2>>)) =>
              /\ cfg.P = "IdentityPermutation" => hist[k].post = Arr(<<1, 2, 0, 0>>)
              /\ cfg.P = "SimplePermutation" => hist[k].post = Arr(<<2, 0, 0, 1>>)

C3_Witness ==
    /\ Len(hist) = 3
    /\ hist[3].op = "absorb"
    /\ cfg.P = "SimplePermutation"
    /\ 0 < RATE /\ RATE < N
    /\ \E i \in 0..(RATE - 1) : hist[3].pre[i] # 0 /\ hist[3].input[i] # 0
    /\ \E i \in RATE..(N - 1) : hist[3].pre[i] # 0

(***************************************************************************)
(* C4: squeeze() returns the lanes 0..RATE-1 as they were before the call  *)
(* and leaves the state P(s): the permutation is applied exactly once, and *)
(* only after the output block has been read.                              *)
(***************************************************************************)
C4_SqueezeReadsThenPermutes ==
    \A k \in Ops : hist[k].op = "squeeze" =>
        /\ hist[k].calls = 1
        /\ hist[k].post = Permuted(hist[k].pre).state
        /\ ~hist[k].failed =>
              /\ DOMAIN hist[k].out = 0..(RATE - 1)
              /\ \A i \in 0..(RATE - 1) : hist[k].out[i] = hist[k].pre[i]
        /\ (k = Len(hist) /\ ~hist[k].failed) => (output = hist[k].out /\ state = hist[k].post)

C4_Witness ==
    /\ Len(hist) >= 2
    /\ hist[Len(hist)].op = "squeeze"
    /\ ~hist[Len(hist)].failed
    /\ RATE > 0
    /\ output # Prefix(state, RATE)

(***************************************************************************)
(* C5: two consecutive squeeze() calls, with no absorb in between, return  *)
(* different output blocks whenever the permutation is not the identity,   *)
(* for every sponge state.                                                 *)
(*                                                                         *)
(* As stated this does not hold (C5_ConsecutiveSqueezesDiffer): a state    *)
(* whose first RATE lanes the permutation maps to themselves, such as the  *)
(* all-zero state under the cyclic shift, gives the same block twice.      *)
(* What holds (C5_SecondSqueezeReadsPermutedState): the second call        *)
(* returns the lanes 0..RATE-1 of P(s), s being the state before the first *)
(* call, so the two blocks differ exactly when P(s) differs from s in a    *)
(* lane below RATE.                                                        *)
(***************************************************************************)
SqueezePairs ==
    {k \in Ops : /\ k + 1 \in Ops
                 /\ hist[k].op = "squeeze" /\ hist[k + 1].op = "squeeze"
                 /\ ~hist[k].failed /\ ~hist[k + 1].failed}

NonIdentity == \E s \in Blocks(N) : Permuted(s).state # s

\* The claim as stated, on the sponges that have at least one rate lane (with
\* RATE = 0 both blocks are empty and the claim fails trivially).
C5_ConsecutiveSqueezesDiffer ==
    \A k \in SqueezePairs : (RATE > 0 /\ NonIdentity) => hist[k].out # hist[k + 1].out

C5_SecondSqueezeReadsPermutedState ==
    \A k \in SqueezePairs :
        LET s == hist[k].pre
            t == Permuted(s).state
        IN  /\ \A i \in 0..(RATE - 1) : hist[k].out[i] = s[i] /\ hist[k + 1].out[i] = t[i]
            /\ (hist[k].out # hist[k + 1].out) <=> (\E i \in 0..(RATE - 1) : t[i] # s[i])

C5_Witness ==
    /\ SqueezePairs # {}
    /\ cfg.P = "SimplePermutation"
    /\ \A k \in SqueezePairs : hist[k].out # hist[k + 1].out

(***************************************************************************)
(* C6: perm runs R_F/2 full rounds, then R_P partial rounds, then R_F/2    *)
(* full rounds; a full round applies sbox to every lane and a partial      *)
(* round to lane 0 only, so that with R_F even lane 0 receives R_F + R_P   *)
(* sbox applications and every other lane R_F.  With SboxConfig, [a, b, c] *)
(* becomes [a^(5^5), b^(5^2), c^(5^2)].                                    *)
(***************************************************************************)
C6_IsFullRound(r) ==
    \/ r < cfg.config.R_F \div 2
    \/ r >= cfg.config.R_F \div 2 + cfg.config.R_P

C6_SboxesOf(sb, r, lane) ==
    Cardinality({n \in 1..Len(sb) : sb[n].round = r /\ sb[n].lane = lane})

C6_SboxesOnLane(sb, lane) ==
    Cardinality({n \in 1..Len(sb) : sb[n].lane = lane})

C6_RoundStructure ==
    \A k \in Completed : EvenRF =>
        LET sb == Sboxes(k)
            rounds == cfg.config.R_F + cfg.config.R_P
        IN
        /\ Len(Muls(k)) = rounds
        /\ \A r \in 0..(rounds - 1) : \A lane \in 0..(cfg.config.T - 1) :
              C6_SboxesOf(sb, r, lane) = IF C6_IsFullRound(r) \/ lane = 0 THEN 1 ELSE 0
        /\ \A n \in 1..Len(sb) : sb[n].round \in 0..(rounds - 1)
        /\ C6_SboxesOnLane(sb, 0) = cfg.config.R_F + cfg.config.R_P
        /\ \A lane \in 1..(cfg.config.T - 1) : C6_SboxesOnLane(sb, lane) = cfg.config.R_F
        /\ cfg.config.sbox = "pow5" => \A n \in 1..Len(sb) : sb[n].post = Fifth(sb[n].pre)
        /\ cfg.config.name = "SboxConfig" =>
              /\ hist[k].run.words[0] = FifthTimes(hist[k].run.input[0], 5)
              /\ hist[k].run.words[1] = FifthTimes(hist[k].run.input[1], 2)
              /\ hist[k].run.words[2] = FifthTimes(hist[k].run.input[2], 2)

C6_Witness ==
    /\ cfg.config.name = "SboxConfig"
    /\ Len(hist) = 2 /\ 2 \in Completed
    /\ hist[2].run.input = Arr(<<2, 3, 4>>)
    /\ hist[2].run.words[0] # hist[2].run.input[0]
    /\ hist[2].run.words[1] = hist[2].run.input[1]

(***************************************************************************)
(* C7: with R_F even, one call of perm reads the round constants           *)
(* 0..T*(R_F+R_P)-1 once each and in increasing order: in round r lane i   *)
(* is added the constant r*T + i, and the counter starts from 0 again on   *)
(* each call.  With RoundConstantConfig, [1, 1, 1] becomes [16, 151, 1501].*)
(***************************************************************************)
C7_ConstantsInOrder ==
    \A k \in Completed : EvenRF =>
        LET adds == Adds(k) IN
        /\ Len(adds) = Needed
        /\ hist[k].run.counter = Needed
        /\ \A n \in 1..Len(adds) :
              /\ adds[n].idx = n - 1
              /\ adds[n].round = (n - 1) \div cfg.config.T
              /\ adds[n].lane = (n - 1) % cfg.config.T
              /\ adds[n].idx = adds[n].round * cfg.config.T + adds[n].lane
              /\ adds[n].post = (adds[n].pre + cfg.config.round_constants[n - 1]) % FieldOrder
        /\ (cfg.config.name = "RoundConstantConfig" /\ hist[k].run.input = Arr(<<1, 1, 1>>)) =>
              hist[k].run.words = Arr(<<16, 151, 1501>>)

C7_Witness ==
    /\ cfg.config.name = "RoundConstantConfig"
    /\ Len(hist) = 3 /\ Completed = {2, 3}
    /\ hist[2].run.input = Arr(<<1, 1, 1>>)
    /\ Adds(3)[1].idx = 0 /\ Adds(3)[Needed].idx = Needed - 1

(***************************************************************************)
(* C8: the linear step of every round computes the whole product from the  *)
(* state before the multiplication: new[i] is the sum over j of            *)
(* mds_matrix[i][j] * old[j].  With MatrixConfig a round maps [a, b, c] to *)
(* [b, c, 2a], and perm maps [1, 10, 100] to [200, 4, 40].                 *)
(***************************************************************************)
RECURSIVE C8_Dot(_, _, _)
C8_Dot(row, old, j) ==
    IF j < 0 THEN 0 ELSE C8_Dot(row, old, j - 1) + row[j] * old[j]

C8_MatrixProduct ==
    \A k \in Runs :
        /\ \A n \in 1..Len(Muls(k)) :
              LET e == Muls(k)[n]
                  old == e.pre
                  after == e.post
              IN  /\ DOMAIN after = 0..(cfg.config.T - 1)
                  /\ \A i \in 0..(cfg.config.T - 1) :
                        after[i] = C8_Dot(cfg.config.mds_matrix[i], old, cfg.config.T - 1) % FieldOrder
                  /\ cfg.config.name = "MatrixConfig" =>
                        after = [i \in 0..2 |-> IF i = 2 THEN (2 * old[0]) % FieldOrder ELSE old[i + 1]]
        /\ (cfg.config.name = "MatrixConfig" /\ hist[k].run.input = Arr(<<1, 10, 100>>)) =>
              hist[k].run.words = Arr(<<200, 4, 40>>)

C8_Witness ==
    /\ cfg.config.name = "MatrixConfig"
    /\ Len(hist) = 2 /\ 2 \in Completed
    /\ hist[2].run.input = Arr(<<1, 10, 100>>)
    /\ Muls(2)[1].pre[0] # 0 /\ Muls(2)[1].post # Muls(2)[1].pre

(***************************************************************************)
(* C9: with R_F even, when round_constants holds L < T*(R_F+R_P) elements  *)
(* perm fails with an out-of-bounds error at the first read past the end,  *)
(* the read of index L: it has read 0..L-1 once each and in order, reads   *)
(* no earlier constant again, and does not return normally.                *)
(***************************************************************************)
C9_ShortConstantsFail ==
    \A k \in Runs : (EvenRF /\ Supplied < Needed) =>
        LET tr == hist[k].run.trace IN
        /\ hist[k].failed
        /\ hist[k].run.failed
        /\ Len(tr) >= 1
        /\ tr[Len(tr)].ev = "oob" /\ tr[Len(tr)].idx = Supplied
        /\ \A n \in 1..(Len(tr) - 1) : tr[n].ev # "oob"
        /\ Len(Adds(k)) = Supplied
        /\ \A n \in 1..Len(Adds(k)) : Adds(k)[n].idx = n - 1
        /\ k = Len(hist)
        /\ status = "panicked"

C9_Witness ==
    /\ IsPoseidon /\ EvenRF
    /\ Supplied = 14 /\ Needed = 15
    /\ Len(hist) = 2 /\ hist[2].failed
    /\ Len(Muls(2)) = 4

(***************************************************************************)
(* C10: every failure is a rejection at construction: a configuration with *)
(* too few round constants, or a RATE above N, is rejected before any      *)
(* absorb or squeeze runs, and on a constructed sponge no absorb, squeeze  *)
(* or permutation call ever fails.                                         *)
(***************************************************************************)
C10_FailuresOnlyAtConstruction ==
    /\ (IsPoseidon /\ Supplied < Needed) => Ops = {}
    /\ RATE > N => Ops = {}
    /\ \A k \in 1..Len(hist) : hist[k].failed => hist[k].op = "new"

RECURSIVE C12_Calls(_, _)
C12_Calls(steps, n) == IF n = 0 THEN 0 ELSE C12_Calls(steps, n - 1) + steps[n].calls

C12_HashDrivesSponge ==
    hashes # <<>> =>
        LET h == hashes[Len(hashes)]
            k == Size(h.input)
            st == hash_steps
        IN  /\ ~h.failed
            /\ RATE = 1 /\ N = 3
            /\ Len(st) = k + 2
            /\ st[1].op = "new" /\ st[1].calls = 0
            /\ st[1].post = [i \in 0..2 |-> 0]
            /\ \A i \in 1..k :
                  /\ st[i + 1].op = "absorb"
                  /\ st[i + 1].input = [j \in 0..0 |-> h.input[i - 1]]
                  /\ st[i + 1].pre = st[i].post
                  /\ st[i + 1].calls = 1
                  /\ st[i + 1].run.input =
                        [j \in 0..2 |-> IF j = 0 THEN (st[i].post[0] + h.input[i - 1]) % FieldOrder
                                        ELSE st[i].post[j]]
                  /\ st[i + 1].post = st[i + 1].run.words
            /\ st[k + 2].op = "squeeze"
            /\ st[k + 2].pre = st[k + 1].post
            /\ st[k + 2].calls = 1
            /\ st[k + 2].run.input = st[k + 1].post
            /\ h.digest = [j \in 0..0 |-> st[k + 1].post[0]]
            /\ C12_Calls(st, Len(st)) = k + 1

C12_Witness ==
    /\ hashes # <<>>
    /\ Size(hashes[Len(hashes)].input) = 2
    /\ hashes[Len(hashes)].input[0] # hashes[Len(hashes)].input[1]
    /\ Len(hash_steps) = 4
    /\ hash_steps[2].post # hash_steps[3].post
    /\ hashes[Len(hashes)].digest[0] = hash_steps[3].post[0]

(***************************************************************************)
(* C13: after any sequence of absorb and squeeze calls the permutation has *)
(* been invoked exactly once per absorb and once per squeeze, and not by   *)
(* new, so that k absorbs of in_1..in_k from s0 leave                      *)
(* P(..P(P(s0 + in_1) + in_2).. + in_k).  Under SimplePermutation with     *)
(* N = 4, RATE = 2 and zero start, [1, 2] then [1, 4] leaves [4, 0, 1, 3]. *)
(***************************************************************************)
RECURSIVE C13_Composed(_)
C13_Composed(k) ==
    IF k = 1 THEN hist[1].input
    ELSE LET s == C13_Composed(k - 1)
             mixed == [i \in 0..(N - 1) |->
                          IF i < RATE THEN (s[i] + hist[k].input[i]) % FieldOrder ELSE s[i]]
         IN  IF hist[k].op = "absorb" THEN Permuted(mixed).state ELSE Permuted(s).state

RECURSIVE C13_Calls(_)
C13_Calls(k) == IF k = 0 THEN 0 ELSE C13_Calls(k - 1) + hist[k].calls

C13_OnePermutationPerOperation ==
    (hist # <<>> /\ RATE <= N) =>
        /\ hist[1].calls = 0
        /\ \A k \in Ops : hist[k].calls = 1
        /\ C13_Calls(Len(hist)) = Cardinality(Ops)
        /\ state = C13_Composed(Len(hist))
        /\ (/\ cfg.P = "SimplePermutation" /\ N = 4 /\ RATE = 2
            /\ Len(hist) = 3
            /\ hist[1].input = Arr(<<0, 0, 0, 0>>)
            /\ hist[2].op = "absorb" /\ hist[2].input = Arr(<<1, 2>>)
            /\ hist[3].op = "absorb" /\ hist[3].input = Arr(<<1, 4>>)) =>
              state = Arr(<<4, 0, 1, 3>>)

C13_Witness ==
    /\ cfg.P = "SimplePermutation" /\ N = 4 /\ RATE = 2
    /\ Len(hist) = 3
    /\ hist[1].input = Arr(<<0, 0, 0, 0>>)
    /\ hist[2].op = "absorb" /\ hist[2].input = Arr(<<1, 2>>)
    /\ hist[3].op = "absorb" /\ hist[3].input = Arr(<<1, 4>>)
    /\ state = Arr(<<4, 0, 1, 3>>)

(***************************************************************************)
(* C14: within every round of perm, full or partial, the steps happen in   *)
(* the order add-constant, S-box, matrix-multiply: all T additions of the  *)
(* round come before any sbox of the round, and every sbox of the round    *)
(* before its matrix-vector product.                                       *)
(***************************************************************************)
\* The runs of perm on record: those of the sponge's operations and those of
\* the steps of the latest call of hash.
C14_Traces ==
    {hist[k].run.trace : k \in Runs}
    \cup {hash_steps[j].run.trace : j \in 2..Len(hash_steps)}

\* What may directly follow the step a in a trace.
C14_MayFollow(a, b) ==
    LET lanes == cfg.config.T IN
    CASE a.ev = "add" ->
            /\ b.round = a.round
            /\ IF a.lane < lanes - 1
               THEN b.ev \in {"add", "oob"} /\ b.lane = a.lane + 1
               ELSE b.ev = "sbox" /\ b.lane = 0
      [] a.ev = "sbox" ->
            /\ b.round = a.round
            /\ \/ b.ev = "sbox" /\ b.lane = a.lane + 1
               \/ b.ev = "mul"
      [] a.ev = "mul" ->
            /\ b.round = a.round + 1
            /\ b.ev \in {"add", "oob"} /\ b.lane = 0
      [] OTHER -> FALSE

C14_StepsInOrder ==
    \A tr \in C14_Traces :
        /\ Len(tr) > 0 => (tr[1].ev \in {"add", "oob"} /\ tr[1].lane = 0 /\ tr[1].round = 0)
        /\ \A p \in 1..(Len(tr) - 1) : C14_MayFollow(tr[p], tr[p + 1])
        /\ Len(tr) > 0 => tr[Len(tr)].ev \in {"mul", "oob"}

C14_Witness ==
    /\ cfg.config.name = "DenseConfig"
    /\ Len(hist) = 2 /\ 2 \in Completed
    /\ hist[2].run.trace[3].ev = "add" /\ hist[2].run.trace[3].post # hist[2].run.trace[3].pre
    /\ hist[2].run.trace[4].ev = "sbox" /\ hist[2].run.trace[4].post # hist[2].run.trace[4].pre
    /\ hist[2].run.trace[7].ev = "mul"
    /\ \E p \in 1..Len(hist[2].run.trace) :
          hist[2].run.trace[p].round = 2 /\ hist[2].run.trace[p].ev = "mul"

(***************************************************************************)
(* C15: between two operations of a sponge its state is either the initial *)
(* state given to new or the direct result of one permutation call; so     *)
(* every block that squeeze returns is read from such a state, never from  *)
(* a state to which input has been added and which is not yet permuted.    *)
(***************************************************************************)
\* The state that operation k of seq hands to the permutation.
C15_Fed(seq, k) ==
    IF seq[k].op = "absorb"
    THEN [i \in DOMAIN seq[k].pre |->
            IF i < RATE THEN (seq[k].pre[i] + seq[k].input[i]) % FieldOrder
            ELSE seq[k].pre[i]]
    ELSE seq[k].pre

\* After operation k of seq the sponge rests in a state of the two kinds.
C15_Resting(seq, k) ==
    IF seq[k].op = "new"
    THEN k = 1 /\ seq[k].calls = 0 /\ seq[k].post = seq[k].input
    ELSE /\ seq[k].calls = 1
         /\ ~seq[k].failed
         /\ IF IsPoseidon
            THEN seq[k].run.input = C15_Fed(seq, k) /\ seq[k].post = seq[k].run.words
            ELSE seq[k].post = Permuted(C15_Fed(seq, k)).state

C15_ReadsOf(seq) ==
    \A k \in 1..Len(seq) : seq[k].op = "squeeze" =>
        /\ k > 1
        /\ C15_Resting(seq, k - 1)
        /\ seq[k].pre = seq[k - 1].post
        /\ ~seq[k].failed => seq[k].out = Prefix(seq[k].pre, RATE)

C15_StateIsInitialOrPermuted ==
    /\ status = "ready" =>
          /\ Len(hist) > 0
          /\ state = hist[Len(hist)].post
          /\ C15_Resting(hist, Len(hist))
    /\ C15_ReadsOf(hist)
    /\ C15_ReadsOf(hash_steps)

C15_Witness ==
    /\ cfg.P = "SimplePermutation"
    /\ 0 < RATE
    /\ Len(hist) = 3
    /\ hist[2].op = "absorb" /\ hist[3].op = "squeeze"
    /\ C15_Fed(hist, 2) # hist[2].pre
    /\ hist[3].out # Prefix(C15_Fed(hist, 2), RATE)
    /\ status = "ready"

(***************************************************************************)
(* C16: with the identity matrix as mds_matrix, round constants that are   *)
(* all zero and the identity as sbox, perm leaves every input state        *)
(* unchanged, whatever R_F and R_P are.                                    *)
(***************************************************************************)
C16_Neutral ==
    /\ IsPoseidon
    /\ cfg.config.mds_matrix = IDENTITY_MATRIX
    /\ \A k \in DOMAIN cfg.config.round_constants : cfg.config.round_constants[k] = 0
    /\ cfg.config.sbox = "id"

C16_NeutralPermIsIdentity ==
    C16_Neutral =>
        \A k \in Runs :
            Supplied >= cfg.config.T * (2 * (cfg.config.R_F \div 2) + cfg.config.R_P) =>
                /\ ~hist[k].run.failed
                /\ hist[k].run.words = hist[k].run.input
                /\ \A p \in 1..Len(hist[k].run.trace) :
                      hist[k].run.trace[p].post = hist[k].run.trace[p].pre

C16_Witness ==
    /\ C16_Neutral
    /\ cfg.config.R_F = 1 /\ cfg.config.R_P = 2
    /\ Len(hist) = 3
    /\ hist[2].op = "absorb" /\ hist[3].op = "squeeze"
    /\ hist[3].run.input[0] # 0 /\ hist[3].run.input[1] # 0
    /\ hist[3].run.input[1] # hist[3].run.input[2]
    /\ Len(hist[3].run.trace) > 0
    /\ hist[3].run.words = hist[3].run.input

(***************************************************************************)
(* C17: given at least T * (R_F + R_P) round constants and an even R_F,    *)
(* every call of perm ends after exactly R_F + R_P rounds, and every       *)
(* absorb and squeeze ends after exactly one call of the permutation; the  *)
(* steps taken do not depend on the values in the state.                   *)
(***************************************************************************)
\* The steps of a run without the values they worked on.
C17_Shape(tr) ==
    [p \in 1..Len(tr) |-> <<tr[p].ev, tr[p].round, tr[p].lane, tr[p].idx>>]

C17_StepsOf(c) ==
    c.T * (c.R_F + c.R_P) + (c.T * c.R_F + c.R_P) + (c.R_F + c.R_P)

C17_RunsIn(seq) ==
    \A k \in 1..Len(seq) : seq[k].op \in {"absorb", "squeeze"} =>
        /\ seq[k].calls = 1
        /\ ~seq[k].failed
        /\ IsPoseidon =>
              /\ seq[k].run.round = cfg.config.R_F + cfg.config.R_P
              /\ seq[k].run.counter = Needed
              /\ Len(seq[k].run.trace) = C17_StepsOf(cfg.config)
              /\ \A j \in 1..Len(seq) : seq[j].op \in {"absorb", "squeeze"} =>
                    C17_Shape(seq[j].run.trace) = C17_Shape(seq[k].run.trace)

C17_StaticRoundCount ==
    (IsPoseidon => (EvenRF /\ Supplied >= Needed)) =>
        /\ C17_RunsIn(hist)
        /\ C17_RunsIn(hash_steps)

C17_Witness ==
    /\ cfg.config.name = "DenseConfig"
    /\ Len(hist) = 3
    /\ hist[2].op = "absorb" /\ hist[3].op = "squeeze"
    /\ hist[2].run.input # hist[3].run.input
    /\ hist[2].run.round = 5 /\ hist[3].run.round = 5
    /\ ~hist[3].failed

(***************************************************************************)
(* C18: ConfigX5_254_3 (T = 3, R_F = 8, R_P = 57) supplies exactly         *)
(* T * (R_F + R_P) = 195 round constants, so the index of the constant     *)
(* that perm reads stays within bounds in every round of every call of     *)
(* hash, whatever the length of the input.                                 *)
(***************************************************************************)
C18_InBounds(run) ==
    /\ ~run.failed
    /\ run.round = cfg.config.R_F + cfg.config.R_P
    /\ run.counter = Supplied
    /\ \A p \in 1..Len(run.trace) :
          /\ run.trace[p].ev # "oob"
          /\ run.trace[p].ev = "add" => run.trace[p].idx \in DOMAIN cfg.config.round_constants

C18_ShippedConstantsSuffice ==
    cfg.config.name = "ConfigX5_254_3" =>
        /\ cfg.config.T = 3 /\ cfg.config.R_F = 8 /\ cfg.config.R_P = 57
        /\ Supplied = Needed
        /\ Supplied = Size(X5_254_3_CONSTANTS)
        /\ \A h \in 1..Len(hashes) : ~hashes[h].failed /\ Size(hashes[h].digest) = 1
        /\ Len(hashes) > 0 => Len(hash_steps) = Size(hashes[Len(hashes)].input) + 2
        /\ \A j \in 2..Len(hash_steps) : C18_InBounds(hash_steps[j].run)

C18_Witness ==
    /\ cfg.config.name = "ConfigX5_254_3"
    /\ Len(hashes) = 2
    /\ Size(hashes[1].input) = 0
    /\ Size(hashes[2].input) = 2
    /\ Len(hash_steps) = 4
    /\ \E p \in 1..Len(hash_steps[4].run.trace) :
          /\ hash_steps[4].run.trace[p].ev = "add"
          /\ hash_steps[4].run.trace[p].idx = Supplied - 1
          /\ hash_steps[4].run.trace[p].round = 64

(***************************************************************************)
(* C19: perm accepts an odd R_F: it runs floor(R_F / 2) full rounds before *)
(* and floor(R_F / 2) after the partial rounds, that is R_F - 1 full       *)
(* rounds, and reads only T * (R_F - 1 + R_P) round constants; constants   *)
(* past the last index read are ignored without error.                     *)
(***************************************************************************)
\* The rounds of a run in which a lane other than lane 0 went through sbox.
C19_FullRoundsOf(run) ==
    {run.trace[p].round : p \in {q \in 1..Len(run.trace) :
                                    run.trace[q].ev = "sbox" /\ run.trace[q].lane = 1}}

C19_OddRFRunsOneRoundLess ==
    (IsPoseidon /\ ~EvenRF /\ Supplied >= cfg.config.T * (cfg.config.R_F - 1 + cfg.config.R_P)) =>
        \A k \in Runs :
            LET run == hist[k].run
                half == cfg.config.R_F \div 2
            IN  /\ ~run.failed
                /\ run.round = cfg.config.R_F - 1 + cfg.config.R_P
                /\ run.counter = cfg.config.T * (cfg.config.R_F - 1 + cfg.config.R_P)
                /\ C19_FullRoundsOf(run) =
                      0..(half - 1) \cup (half + cfg.config.R_P)..(2 * half + cfg.config.R_P - 1)
                /\ Cardinality(C19_FullRoundsOf(run)) = cfg.config.R_F - 1
                /\ \A p \in 1..Len(run.trace) :
                      run.trace[p].ev = "add" => run.trace[p].idx < run.counter

C19_Witness ==
    /\ cfg.config.name = "OddConfig"
    /\ Len(hist) = 2 /\ 2 \in Completed
    /\ hist[2].run.round = 3
    /\ hist[2].run.counter = 9
    /\ Supplied = 15
    /\ hist[2].run.words # hist[2].run.input

(***************************************************************************)
(* C20: hash of the empty input returns [0]: no absorb happens, and the    *)
(* one squeeze reads lane 0 of the all-zero initial state before the       *)
(* permutation has been applied at all, so that the digest depends neither *)
(* on the permutation nor on its configuration.                            *)
(***************************************************************************)
C20_Zero(n) == [i \in 0..(n - 1) |-> 0]

C20_EmptyInputHashesToZero ==
    /\ \A h \in 1..Len(hashes) : Size(hashes[h].input) = 0 =>
          /\ ~hashes[h].failed
          /\ hashes[h].digest = C20_Zero(1)
    /\ (Len(hashes) > 0 /\ Size(hashes[Len(hashes)].input) = 0) =>
          /\ Len(hash_steps) = 2
          /\ hash_steps[1].op = "new" /\ hash_steps[1].calls = 0
          /\ hash_steps[1].post = C20_Zero(3)
          /\ hash_steps[2].op = "squeeze" /\ hash_steps[2].calls = 1
          /\ hash_steps[2].pre = C20_Zero(3)
          /\ hash_steps[2].run.input = C20_Zero(3)
          /\ hash_steps[2].out = hashes[Len(hashes)].digest
    \* whatever the permutation: a squeeze right after new returns the start
    \* state's lanes below RATE
    /\ (Len(hist) >= 2 /\ hist[2].op = "squeeze" /\ ~hist[2].failed) =>
          hist[2].out = Prefix(hist[1].input, RATE)

C20_Witness ==
    /\ Len(hashes) = 2
    /\ Size(hashes[1].input) > 0 /\ hashes[1].digest # C20_Zero(1)
    /\ Size(hashes[2].input) = 0 /\ hashes[2].digest = C20_Zero(1)
    /\ Len(hash_steps) = 2
    /\ hash_steps[2].run.words # C20_Zero(3)

(***************************************************************************)
(* C21: when round_constants holds L < T * (R_F + R_P) elements, perm      *)
(* fails only on the read of index L; by then the first L additions and    *)
(* every sbox and matrix step of all completed rounds have been written    *)
(* into the caller's state in place, and the state (so the state of the    *)
(* sponge inside absorb or squeeze) is not put back to its value before    *)
(* the call.                                                               *)
(***************************************************************************)
\* The steps of a run that wrote lane i.
C21_WritesTo(run, i) ==
    {p \in 1..Len(run.trace) :
        \/ run.trace[p].ev \in {"add", "sbox"} /\ run.trace[p].lane = i
        \/ run.trace[p].ev = "mul"}

\* The value lane i holds after the steps of a run: the last one written.
C21_LastWritten(run, i) ==
    LET writes == C21_WritesTo(run, i) IN
    IF writes = {} THEN run.input[i]
    ELSE LET p == CHOOSE q \in writes : \A o \in writes : o <= q IN
         IF run.trace[p].ev = "mul" THEN run.trace[p].post[i] ELSE run.trace[p].post

\* The sbox steps of the first q rounds.
C21_SboxSteps(q) ==
    Cardinality({<<r, i>> \in (0..(q - 1)) \X (0..(cfg.config.T - 1)) :
                    i = 0 \/ C6_IsFullRound(r)})

C21_PartialStateIsKept ==
    \A k \in Runs :
        LET run == hist[k].run
            tr == run.trace
            L == Supplied
            done == L \div cfg.config.T
        IN  /\ (EvenRF /\ L < Needed) => run.failed
            /\ run.failed =>
                  /\ L < Needed
                  /\ tr[Len(tr)].ev = "oob" /\ tr[Len(tr)].idx = L
                  /\ tr[Len(tr)].round = done /\ tr[Len(tr)].lane = L % cfg.config.T
                  /\ \A p \in 1..(Len(tr) - 1) : tr[p].ev # "oob"
                  /\ Len(Adds(k)) = L
                  /\ Len(Muls(k)) = done
                  /\ Len(Sboxes(k)) = C21_SboxSteps(done)
                  /\ run.round = done /\ run.counter = L
                  \* each step worked on what the steps before it had left
                  /\ \A p \in 1..(Len(tr) - 1) :
                        LET before == [run EXCEPT !.trace = SubSeq(tr, 1, p - 1)] IN
                        IF tr[p].ev = "mul"
                        THEN \A i \in DOMAIN run.input : tr[p].pre[i] = C21_LastWritten(before, i)
                        ELSE tr[p].pre = C21_LastWritten(before, tr[p].lane)
                  \* and what they wrote is what the caller is left with
                  /\ \A i \in DOMAIN run.input : run.words[i] = C21_LastWritten(run, i)
                  /\ hist[k].post = run.words
                  /\ hist[k].failed
                  /\ k = Len(hist) /\ state = run.words /\ status = "panicked"

C21_Witness ==
    /\ IsPoseidon /\ EvenRF
    /\ cfg.config.mds_matrix # IDENTITY_MATRIX
    /\ Supplied = 14 /\ Needed = 15
    /\ Len(hist) = 2 /\ hist[2].op = "absorb" /\ hist[2].failed
    /\ status = "panicked"
    /\ state # hist[2].pre /\ state # hist[2].run.input
    /\ Len(Muls(2)) = 4
    /\ Adds(2)[14].lane = 1 /\ state[1] = Adds(2)[14].post
    /\ Adds(2)[14].post # Adds(2)[14].pre

====
